---------------------------- MODULE Spec2Model ----------------------------
(***************************************************************************)
(* Model of HiddenEmb/train.py: the metric engine (klue_re_micro_f1,       *)
(* klue_re_auprc, compute_metrics), the label codec (label_to_num) and the *)
(* training orchestrator train().                                          *)
(*                                                                         *)
(* Numbers the code computes in floating point are modelled as exact       *)
(* rationals <<n, d>> in lowest terms with d > 0; <<0, 0>> stands for the  *)
(* floating point NaN.                                                     *)
(***************************************************************************)
EXTENDS Integers, Sequences, FiniteSets, TLC

(***************************************************************************)
(* Bounds of the model.                                                    *)
(***************************************************************************)
\* Largest evaluation batch (number of validation examples).
MaxLen == 2
\* Scores of a prediction vector are drawn from 0..MaxScore.
MaxScore == 1
\* Rescalings multiply a score by 2..MaxGain.
MaxGain == 2
\* --n_splits is drawn from 1..MaxSplits.
MaxSplits == 2
\* The trainer stops after MaxSteps optimisation steps.
MaxSteps == 2
\* --eval_steps and --save_steps are drawn from 1..MaxInterval.
MaxInterval == 3

(***************************************************************************)
(* Exact rational arithmetic standing for the code's float arithmetic.     *)
(***************************************************************************)
Abs(x) == IF x < 0 THEN -x ELSE x

RECURSIVE GCD(_, _)
GCD(a, b) == IF b = 0 THEN a ELSE GCD(b, a % b)

NaN == <<0, 0>>
IsNaN(r) == r[2] = 0

\* n / d as a float: a zero denominator gives NaN (numpy 0/0).
Rat(n, d) ==
    IF d = 0 THEN NaN
    ELSE LET g == GCD(Abs(n), Abs(d))
             s == IF d < 0 THEN -1 ELSE 1
         IN  <<(s * n) \div g, (s * d) \div g>>

RAdd(p, q) == IF IsNaN(p) \/ IsNaN(q) THEN NaN
              ELSE Rat(p[1] * q[2] + q[1] * p[2], p[2] * q[2])
RSub(p, q) == IF IsNaN(p) \/ IsNaN(q) THEN NaN
              ELSE Rat(p[1] * q[2] - q[1] * p[2], p[2] * q[2])
RMul(p, q) == IF IsNaN(p) \/ IsNaN(q) THEN NaN
              ELSE Rat(p[1] * q[1], p[2] * q[2])
RDiv(p, q) == IF IsNaN(p) \/ IsNaN(q) THEN NaN
              ELSE Rat(p[1] * q[2], p[2] * q[1])
RLess(p, q) == ~IsNaN(p) /\ ~IsNaN(q) /\ p[1] * q[2] < q[1] * p[2]

\* A sequence given by a rule, as the array of its values.
Array(s) == SubSeq(s, 1, Len(s))

RECURSIVE SeqSum(_)
SeqSum(s) == IF s = <<>> THEN 0 ELSE Head(s) + SeqSum(Tail(s))

RECURSIVE RSeqSum(_)
RSeqSum(s) == IF s = <<>> THEN <<0, 1>> ELSE RAdd(Head(s), RSeqSum(Tail(s)))

(***************************************************************************)
(* klue_re_micro_f1                                                        *)
(***************************************************************************)
label_list ==
    << "no_relation", "org:top_members/employees", "org:members",
       "org:product", "per:title", "org:alternate_names",
       "per:employee_of", "org:place_of_headquarters", "per:product",
       "org:number_of_employees/members", "per:children",
       "per:place_of_residence", "per:alternate_names",
       "per:other_family", "per:colleagues", "per:origin", "per:siblings",
       "per:spouse", "org:founded", "org:political/religious_affiliation",
       "org:member_of", "per:parents", "org:dissolved",
       "per:schools_attended", "per:date_of_death", "per:date_of_birth",
       "per:place_of_birth", "per:place_of_death", "org:founded_by",
       "per:religion" >>

\* label_list.index("no_relation"), 0-based as in Python.
no_relation_label_idx ==
    (CHOOSE i \in 1..Len(label_list) :
        /\ label_list[i] = "no_relation"
        /\ \A j \in 1..(i - 1) : label_list[j] # "no_relation") - 1

\* list.remove(x): the list without the first occurrence of x.
ListRemove(l, x) ==
    LET k == CHOOSE i \in 1..Len(l) : l[i] = x /\ \A j \in 1..(i - 1) : l[j] # x
    IN  [i \in 1..(Len(l) - 1) |-> IF i < k THEN l[i] ELSE l[i + 1]]

\* A label list that drops the last class instead of no_relation.
LabelIndicesDropLast ==
    Array([i \in 1..(Len(label_list) - 1) |-> i - 1])

\* list(range(len(label_list))) with no_relation_label_idx removed.
label_indices ==
    Array(ListRemove([i \in 1..Len(label_list) |-> i - 1], no_relation_label_idx))

\* Entries of the multilabel confusion matrix of class c.
TpSum(c, y_true, y_pred) ==
    Cardinality({i \in DOMAIN y_true : y_true[i] = c /\ y_pred[i] = c})
PredSum(c, y_pred) == Cardinality({i \in DOMAIN y_pred : y_pred[i] = c})
TrueSum(c, y_true) == Cardinality({i \in DOMAIN y_true : y_true[i] = c})

\* sklearn _prf_divide with zero_division="warn": x/0 is replaced by 0.
prf_divide(numerator, denominator) ==
    IF denominator = 0 THEN <<0, 1>> ELSE Rat(numerator, denominator)

\* An F1 that averages the per-class F1 values (macro) instead of pooling.
F1ScoreMacro(y_true, y_pred, lbls) ==
    LET f(c) == LET p == prf_divide(TpSum(c, y_true, y_pred), PredSum(c, y_pred))
                    r == prf_divide(TpSum(c, y_true, y_pred), TrueSum(c, y_true))
                    d == RAdd(p, r)
                IN  RDiv(RMul(<<2, 1>>, RMul(p, r)), IF d[1] = 0 THEN <<1, 1>> ELSE d)
    IN  RDiv(RSeqSum([k \in 1..Len(lbls) |-> f(lbls[k])]), <<Len(lbls), 1>>)

\* sklearn.metrics.f1_score(y_true, y_pred, average="micro", labels=lbls):
\* the per-class counts of the classes in lbls are summed, then
\* precision, recall and F (beta = 1) are formed from the sums.
f1_score_micro(y_true, y_pred, lbls) ==
    LET tp_sum    == SeqSum([k \in 1..Len(lbls) |-> TpSum(lbls[k], y_true, y_pred)])
        pred_sum  == SeqSum([k \in 1..Len(lbls) |-> PredSum(lbls[k], y_pred)])
        true_sum  == SeqSum([k \in 1..Len(lbls) |-> TrueSum(lbls[k], y_true)])
        precision == prf_divide(tp_sum, pred_sum)
        recall    == prf_divide(tp_sum, true_sum)
        denom     == RAdd(precision, recall)
        denom1    == IF denom[1] = 0 THEN <<1, 1>> ELSE denom
    IN  RDiv(RMul(<<2, 1>>, RMul(precision, recall)), denom1)

klue_re_micro_f1(preds, labels) ==
    RMul(f1_score_micro(labels, preds, label_indices), <<100, 1>>)


(***************************************************************************)
(* State.                                                                  *)
(***************************************************************************)
VARIABLES
    \* the metric engine applied to one evaluation batch
    label_ids,       \* pred.label_ids: the true class index of each example
    predictions,     \* pred.predictions: one vector of 30 scores per example
    metrics,         \* what compute_metrics returned for the batch, or NoMetrics
    base,            \* the batch and its metrics before the scores were rescaled
    sklearn_build,   \* which scikit-learn the program runs on
    \* one run of train(args)
    args,            \* the parsed command line
    csv,             \* args.train_data: the label of each record of the file
    pkl,             \* dict_label_to_num.pkl: label -> index
    pc,              \* the statement train() is at
    history,         \* the steps train() has completed, in order
    error,           \* the exception that ended the run
    dataset,         \* load(args.train_data)
    split,           \* the split loop: iterations done, train_dataset, dev_dataset
    pkl_loads,       \* the mappings pickle.load has returned, in order
    train_label,     \* label_to_num(train_dataset['label'].values)
    dev_label,       \* label_to_num(dev_dataset['label'].values)
    used,            \* the (train, dev) index pairs the later steps consumed
    trainer,         \* the Trainer and its TrainerState
    evals,           \* one record per evaluation cycle of the trainer
    saved            \* what model.save_pretrained wrote, in order

metric_vars == <<label_ids, predictions, metrics, base>>
train_vars == <<args, csv, pkl, pc, history, error, dataset, split, pkl_loads,
                train_label, dev_label, used, trainer, evals, saved>>
vars == <<metric_vars, sklearn_build, train_vars>>

NoMetrics == [x \in {} |-> x]
NoBase == [x \in {} |-> x]

NumLabels == Len(label_list)
Classes == 0..(NumLabels - 1)

(***************************************************************************)
(* klue_re_auprc                                                           *)
(***************************************************************************)
\* np.eye(30)[labels]: row i is the one-hot vector of labels[i].
Eye(n) == [r \in 0..(n - 1) |-> [c \in 0..(n - 1) |-> IF r = c THEN 1 ELSE 0]]
OneHot(labels) == LET eye == Eye(30) IN [i \in DOMAIN labels |-> eye[labels[i]]]

\* m.take([c], axis=1).ravel(): column c of a matrix.
TakeColumn(m, c) == Array([i \in DOMAIN m |-> m[i][c]])

SetMax(S) == CHOOSE m \in S : \A x \in S : x <= m

RECURSIVE SortDesc(_)
SortDesc(S) == IF S = {} THEN <<>>
               ELSE <<SetMax(S)>> \o SortDesc(S \ {SetMax(S)})

\* sklearn _binary_clf_curve: one threshold per distinct score, highest
\* first; tps/fps count the positives/negatives scored at or above it.
binary_clf_curve(y_true, y_score) ==
    LET thresholds == SortDesc({y_score[i] : i \in DOMAIN y_score})
        atOrAbove(k) == {i \in DOMAIN y_score : y_score[i] >= thresholds[k]}
        tps == Array([k \in DOMAIN thresholds |->
                         Cardinality({i \in atOrAbove(k) : y_true[i] = 1})])
        fps == Array([k \in DOMAIN thresholds |-> Cardinality(atOrAbove(k)) - tps[k]])
    IN  [fps |-> fps, tps |-> tps, thresholds |-> thresholds]

\* A curve drawn for the single fixed decision threshold 1 instead of one
\* threshold per distinct score.
PrecisionRecallCurveFixedThreshold(y_true, probas_pred) ==
    LET chosen == {i \in DOMAIN probas_pred : probas_pred[i] >= 1}
        tp == Cardinality({i \in chosen : y_true[i] = 1})
        positives == Cardinality({i \in DOMAIN y_true : y_true[i] = 1})
        precision == IF chosen = {} THEN <<0, 1>> ELSE Rat(tp, Cardinality(chosen))
        recall == IF positives = 0 /\ sklearn_build = "unit_recall"
                  THEN <<1, 1>> ELSE Rat(tp, positives)
    IN  [precision |-> <<precision, <<1, 1>>>>, recall |-> <<recall, <<0, 1>>>>]

\* sklearn.metrics.precision_recall_curve.  Older releases divide by the
\* number of positives even when it is 0 (recall is NaN) and cut the curve
\* where full recall is first attained; newer ones set recall to 1 when
\* there is no positive and keep the whole curve.  The outputs are reversed
\* (recall decreasing) and the point (precision 1, recall 0) is appended.
precision_recall_curve(y_true, probas_pred) ==
    LET c == binary_clf_curve(y_true, probas_pred)
        n == Len(c.tps)
        precision == Array([k \in 1..n |-> Rat(c.tps[k], c.tps[k] + c.fps[k])])
        recall == Array([k \in 1..n |->
                            IF c.tps[n] = 0 /\ sklearn_build = "unit_recall"
                            THEN <<1, 1>>
                            ELSE Rat(c.tps[k], c.tps[n])])
        last_ind == IF sklearn_build = "unit_recall" THEN n
                    ELSE CHOOSE k \in 1..n :
                            /\ c.tps[k] >= c.tps[n]
                            /\ \A j \in 1..(k - 1) : c.tps[j] < c.tps[n]
    IN  [precision |-> Array([k \in 1..(last_ind + 1) |->
                                 IF k = last_ind + 1 THEN <<1, 1>>
                                 ELSE precision[last_ind + 1 - k]]),
         recall    |-> Array([k \in 1..(last_ind + 1) |->
                                 IF k = last_ind + 1 THEN <<0, 1>>
                                 ELSE recall[last_ind + 1 - k]])]

\* np.trapz(y, x)
trapz(y, x) ==
    RSeqSum([i \in 1..(Len(x) - 1) |->
                RDiv(RMul(RSub(x[i + 1], x[i]), RAdd(y[i + 1], y[i])), <<2, 1>>)])

\* sklearn.metrics.auc(x, y): the trapezoidal area, signed by the direction
\* of x; an x that both rises and falls is refused (modelled as NaN).
auc(x, y) ==
    LET dx == Array([i \in 1..(Len(x) - 1) |-> RSub(x[i + 1], x[i])])
        anyNeg == \E i \in DOMAIN dx : RLess(dx[i], <<0, 1>>)
        allNonPos == \A i \in DOMAIN dx : ~IsNaN(dx[i]) /\ ~RLess(<<0, 1>>, dx[i])
    IN  IF anyNeg /\ ~allNonPos THEN NaN
        ELSE RMul(<<IF anyNeg THEN -1 ELSE 1, 1>>, trapz(y, x))

\* The array `score` of klue_re_auprc: the area of each class's
\* one-vs-rest precision-recall curve, as a sequence indexed by class + 1.
auprc_score(probs, labels) ==
    LET onehot == OneHot(labels)
    IN  Array([k \in 1..30 |->
            LET targets_c == TakeColumn(onehot, k - 1)
                preds_c   == TakeColumn(probs, k - 1)
                pr        == precision_recall_curve(targets_c, preds_c)
            IN  auc(pr.recall, pr.precision)])

\* np.average(score) * 100.0
klue_re_auprc(probs, labels) ==
    LET score == auprc_score(probs, labels)
    IN  RMul(RDiv(RSeqSum(score), <<Len(score), 1>>), <<100, 1>>)

(***************************************************************************)
(* compute_metrics                                                         *)
(***************************************************************************)
\* numpy argmax over the last axis: the first index of the largest score.
ArgMax(v) ==
    CHOOSE c \in DOMAIN v :
        /\ \A d \in DOMAIN v : v[d] <= v[c]
        /\ \A d \in DOMAIN v : d < c => v[d] < v[c]

\* An accuracy that leaves out the examples whose true label is no_relation.
AccuracyExcludingNoRelation(y_true, y_pred) ==
    Rat(Cardinality({i \in DOMAIN y_true :
                        y_true[i] # no_relation_label_idx /\ y_true[i] = y_pred[i]}),
        Cardinality({i \in DOMAIN y_true : y_true[i] # no_relation_label_idx}))

\* sklearn.metrics.accuracy_score: the mean of (y_true == y_pred).
accuracy_score(y_true, y_pred) ==
    Rat(SeqSum([i \in DOMAIN y_true |-> IF y_true[i] = y_pred[i] THEN 1 ELSE 0]),
        Len(y_true))

\* A result that files the F1 and the accuracy under each other's key.
ComputeMetricsSwapped(pred) ==
    LET preds == Array([i \in DOMAIN pred.predictions |-> ArgMax(pred.predictions[i])])
    IN  ("micro f1 score" :> accuracy_score(pred.label_ids, preds))
            @@ ("auprc" :> klue_re_auprc(pred.predictions, pred.label_ids))
            @@ ("accuracy" :> klue_re_micro_f1(preds, pred.label_ids))

compute_metrics(pred) ==
    LET labels == pred.label_ids
        preds  == Array([i \in DOMAIN pred.predictions |-> ArgMax(pred.predictions[i])])
        probs  == pred.predictions
        f1     == klue_re_micro_f1(preds, labels)
        auprc  == klue_re_auprc(probs, labels)
        acc    == accuracy_score(labels, preds)
    IN  ("micro f1 score" :> f1) @@ ("auprc" :> auprc) @@ ("accuracy" :> acc)

(***************************************************************************)
(* The metric engine applied to bounded evaluation batches.                *)
(***************************************************************************)
\* Classes the batches draw from: no_relation, a relation, the last class.
SampleClasses == {no_relation_label_idx, 1, NumLabels - 1}

\* A score vector: s at class a, 0 everywhere else.  The batches draw the
\* vectors that put the top score on a sampled class, and every score level
\* on class 1 (level 0 is the all-equal vector, whose argmax is class 0).
ScoreVec(a, s) == [c \in Classes |-> IF c = a THEN s ELSE 0]
ScoreVecs == {ScoreVec(a, MaxScore) : a \in SampleClasses}
                 \cup {ScoreVec(1, s) : s \in 0..MaxScore}

\* Strictly increasing maps of a score: the score times g, and each class's
\* column moved up by its own amount, which keeps the order of the examples
\* inside every column (ties included) and changes it across columns.
Rescalings == 2..MaxGain
Rescale(g, probs) ==
    [i \in DOMAIN probs |-> [c \in Classes |-> g * probs[i][c] + (g - 1) * c]]

\* No run of train() is under way.
NoError == [step |-> "", kind |-> ""]
NoSplit == [i |-> 0, train_dataset |-> {}, dev_dataset |-> {}, train_iter |-> 0, dev_iter |-> 0]
NoTrainer == [global_step |-> 0, best_metric |-> <<>>, best_model_checkpoint |-> 0,
              checkpoints |-> {}, weights |-> 0, train_dataset |-> {}, eval_dataset |-> {}]
TrainIdle ==
    /\ args = [x \in {} |-> x] /\ csv = <<>> /\ pkl = [x \in {} |-> x]
    /\ pc = "idle" /\ history = <<>> /\ error = NoError
    /\ dataset = <<>> /\ split = NoSplit /\ pkl_loads = <<>>
    /\ train_label = <<>> /\ dev_label = <<>> /\ used = {}
    /\ trainer = NoTrainer /\ evals = <<>> /\ saved = <<>>

MetricInit ==
    /\ TrainIdle
    /\ \E n \in 1..MaxLen :
          /\ label_ids \in [1..n -> SampleClasses]
          /\ predictions \in [1..n -> ScoreVecs]
    /\ metrics = NoMetrics
    /\ base = NoBase
    /\ sklearn_build \in {"nan_recall", "unit_recall"}

\* The trainer hands the batch to compute_metrics.
ComputeMetrics ==
    /\ metrics = NoMetrics
    /\ metrics' = compute_metrics([label_ids |-> label_ids, predictions |-> predictions])
    /\ UNCHANGED <<label_ids, predictions, base, sklearn_build, train_vars>>

\* The same batch with every score passed through an increasing map.
RescaleScores ==
    /\ metrics # NoMetrics
    /\ base = NoBase
    /\ \E g \in Rescalings :
          predictions' = Rescale(g, predictions)
    /\ base' = [predictions |-> predictions, metrics |-> metrics]
    /\ metrics' = NoMetrics
    /\ UNCHANGED <<label_ids, sklearn_build, train_vars>>

MetricNext == ComputeMetrics \/ RescaleScores

SpecMetric == MetricInit /\ [][MetricNext]_vars


(***************************************************************************)
(* label_to_num                                                            *)
(***************************************************************************)
\* The mapping artifact: every label of label_list with its position.
DictLabelToNum ==
    [l \in {label_list[k] : k \in 1..NumLabels} |->
        (CHOOSE k \in 1..NumLabels : label_list[k] = l) - 1]

\* A codec that leaves out the labels it does not know instead of failing.
LabelToNumSkipUnknown(label, file) ==
    LET known == SelectSeq(label, LAMBDA v : v \in DOMAIN file)
    IN  [raised |-> FALSE,
         num_label |-> Array([i \in 1..Len(known) |-> file[known[i]]]),
         loads |-> <<file>>]

\* label_to_num(label) with `file` the content of dict_label_to_num.pkl:
\* the file is unpickled on every call, then each label is looked up in
\* order; a label that is no key raises KeyError and nothing is returned.
label_to_num(label, file) ==
    LET dict_label_to_num == file
        raised == \E i \in 1..Len(label) : label[i] \notin DOMAIN dict_label_to_num
    IN  [raised |-> raised,
         num_label |-> IF raised THEN <<>>
                       ELSE Array([i \in 1..Len(label) |-> dict_label_to_num[label[i]]]),
         loads |-> <<dict_label_to_num>>]

(***************************************************************************)
(* The command line and the files train() reads.                           *)
(***************************************************************************)
\* argparse type=bool: bool() of the string given, true for every string
\* but the empty one.
ParseBool(text) == text # ""

\* The loader module shipped beside train.py and the names it defines.
PluginModules == {"load_data"}
PluginAttrs == {"load_data", "tokenized_dataset", "RE_Dataset"}

\* Names --metric_for_best_model is drawn from.
MetricNames == {"eval_micro f1 score", "micro f1 score", "accuracy", "eval_f1"}

\* The attributes parser.parse_args() sets: one for each add_argument.
ParserArgs ==
    {"seed", "model", "train_data", "num_labels", "output_dir", "save_total_limit",
     "save_steps", "num_train_epochs", "learning_rate", "per_device_train_batch_size",
     "per_device_eval_batch_size", "warmup_steps", "weight_decay", "logging_dir",
     "logging_steps", "evaluation_strategy", "eval_steps", "load_best_model_at_end",
     "save_pretrained", "run_name", "special_entity_type", "preprocess", "clue_type",
     "n_splits", "test_size", "project_name", "entity_name", "report_to",
     "metric_for_best_model", "gradient_accumulation_steps", "hidden_emb_no",
     "load_data_filename", "load_data_func_load", "load_data_func_tokenized",
     "load_data_class"}

\* The attributes of the args object train() is given: those of the parser,
\* or those and the two train() reads that the parser does not define.
AttrSpace ==
    {ParserArgs, ParserArgs \cup {"tokenize"}, ParserArgs \cup {"tokenize", "warmup_ratio"}}

ArgSpace ==
    [attrs : AttrSpace,
     n_splits : 1..MaxSplits,
     test_size : {<<1, 2>>},
     load_data_filename : {"load_data", "no_such_module"},
     load_data_func_load : {"load_data", "no_such_load"},
     load_data_func_tokenized : {"tokenized_dataset", "no_such_tokenizer"},
     load_data_class : {"RE_Dataset", "no_such_class"},
     load_best_model_at_end : {ParseBool(t) : t \in {"True", "False", ""}},
     metric_for_best_model : MetricNames,
     eval_steps : 1..MaxInterval,
     save_steps : 1..MaxInterval,
     save_pretrained : {"./best_model"}]

\* Training files: two records of a relation and two of no_relation; in the
\* second file the relation is one the mapping artifact does not hold.
GoodCsv == <<label_list[2], label_list[1], label_list[2], label_list[1]>>
BadCsv == <<"org:unknown", label_list[1], "org:unknown", label_list[1]>>

(***************************************************************************)
(* train(args)                                                             *)
(***************************************************************************)
\* The statements of train() in program order.
StepOrder ==
    << "seed_everything", "from_pretrained", "resolve_load", "load", "split",
       "encode_train", "encode_dev", "resolve_tokenize", "tokenize",
       "resolve_re_data", "re_data", "model", "wandb_init", "trainer", "train",
       "wandb_finish", "save_pretrained" >>

StepIndex(step) == CHOOSE k \in 1..Len(StepOrder) : StepOrder[k] = step

\* The statement after `step`; "done" after the last one.
Following(step) ==
    IF StepIndex(step) = Len(StepOrder) THEN "done"
    ELSE StepOrder[StepIndex(step) + 1]

\* A resolution that falls back to a default instead of failing.
ResolveLenient(module, attr) == "ok"

\* getattr(import_module(module), attr)
Resolve(module, attr) ==
    IF module \notin PluginModules THEN "ModuleNotFoundError"
    ELSE IF attr \notin PluginAttrs THEN "AttributeError"
    ELSE "ok"

Ceil(r) == IF r[1] % r[2] = 0 THEN r[1] \div r[2] ELSE (r[1] \div r[2]) + 1

\* The records of `data` that carry label l.
ClassMembers(data, l) == {i \in 1..Len(data) : data[i] = l}

\* StratifiedShuffleSplit(test_size).split(data, data["label"]): one
\* iteration yields a test part of ceil(test_size * n) records holding each
\* label in the proportion test_size, and the remaining records as the
\* train part.  Which records is up to the seeded shuffle.
StratifiedShuffleSplit(data, test_size) ==
    LET n == Len(data)
        n_test == Ceil(RMul(test_size, <<n, 1>>))
    IN  {[train_idx |-> (1..n) \ test, test_idx |-> test] :
            test \in {t \in SUBSET (1..n) :
                        /\ Cardinality(t) = n_test
                        /\ \A i \in 1..n :
                              Cardinality(t \cap ClassMembers(data, data[i])) * test_size[2]
                                  = Cardinality(ClassMembers(data, data[i])) * test_size[1]}}

\* A loop body that binds dev_dataset in the first iteration only.
SplitAssignDevOnce(sp, train_idx, test_idx) ==
    [i |-> sp.i + 1,
     train_dataset |-> train_idx, train_iter |-> sp.i + 1,
     dev_dataset |-> IF sp.i = 0 THEN test_idx ELSE sp.dev_dataset,
     dev_iter |-> IF sp.i = 0 THEN 1 ELSE sp.dev_iter]

\* The body of the split loop: both names are rebound in every iteration.
SplitAssign(sp, train_idx, test_idx) ==
    [i |-> sp.i + 1,
     train_dataset |-> train_idx, train_iter |-> sp.i + 1,
     dev_dataset |-> test_idx, dev_iter |-> sp.i + 1]

\* part['label'].values: the labels of the records of a part, in index order.
RECURSIVE LabelValues(_, _)
LabelValues(data, idx) ==
    IF idx = {} THEN <<>>
    ELSE LET m == SetMax(idx) IN Append(LabelValues(data, idx \ {m}), data[m])

\* What a later statement of train() read of the split.
Use(step) == [step |-> step, train |-> split.train_dataset, train_iter |-> split.train_iter,
              dev |-> split.dev_dataset, dev_iter |-> split.dev_iter]

Advance(step) == /\ pc' = Following(step)
                 /\ history' = Append(history, step)
                 /\ UNCHANGED error
Fail(step, kind) == /\ pc' = "failed"
                    /\ error' = [step |-> step, kind |-> kind]
                    /\ UNCHANGED history

TrainInit ==
    /\ label_ids = <<>> /\ predictions = <<>> /\ metrics = NoMetrics /\ base = NoBase
    /\ sklearn_build \in {"nan_recall", "unit_recall"}
    /\ args \in ArgSpace
    /\ csv \in {GoodCsv, BadCsv}
    /\ pkl = DictLabelToNum
    /\ pc = StepOrder[1] /\ history = <<>> /\ error = NoError
    /\ dataset = <<>> /\ split = NoSplit /\ pkl_loads = <<>>
    /\ train_label = <<>> /\ dev_label = <<>> /\ used = {}
    /\ trainer = NoTrainer /\ evals = <<>> /\ saved = <<>>

env_vars == <<label_ids, predictions, metrics, base, sklearn_build, args, csv, pkl>>

\* seed_everything(args.seed)
SeedEverything ==
    /\ pc = "seed_everything"
    /\ Advance("seed_everything")
    /\ UNCHANGED <<env_vars, dataset, split, pkl_loads, train_label, dev_label,
                   used, trainer, evals, saved>>

\* tokenizer = AutoTokenizer.from_pretrained(MODEL_NAME, ...)
FromPretrained ==
    /\ pc = "from_pretrained"
    /\ Advance("from_pretrained")
    /\ UNCHANGED <<env_vars, dataset, split, pkl_loads, train_label, dev_label,
                   used, trainer, evals, saved>>

\* load = getattr(import_module(args.load_data_filename), args.load_data_func_load)
ResolveLoad ==
    /\ pc = "resolve_load"
    /\ LET r == Resolve(args.load_data_filename, args.load_data_func_load)
       IN  IF r = "ok" THEN Advance("resolve_load") ELSE Fail("resolve_load", r)
    /\ UNCHANGED <<env_vars, dataset, split, pkl_loads, train_label, dev_label,
                   used, trainer, evals, saved>>

\* dataset = load(args.train_data)
Load ==
    /\ pc = "load"
    /\ dataset' = csv
    /\ Advance("load")
    /\ UNCHANGED <<env_vars, split, pkl_loads, train_label, dev_label,
                   used, trainer, evals, saved>>

\* One iteration of `for train_idx, test_idx in split.split(...)`; the loop
\* ends after args.n_splits iterations.
SplitIter ==
    /\ pc = "split"
    /\ \E part \in StratifiedShuffleSplit(dataset, args.test_size) :
          split' = SplitAssign(split, part.train_idx, part.test_idx)
    /\ IF split.i + 1 = args.n_splits
       THEN Advance("split")
       ELSE UNCHANGED <<pc, history, error>>
    /\ UNCHANGED <<env_vars, dataset, pkl_loads, train_label, dev_label,
                   used, trainer, evals, saved>>

\* train_label = label_to_num(train_dataset['label'].values)
EncodeTrain ==
    /\ pc = "encode_train"
    /\ LET r == label_to_num(LabelValues(dataset, split.train_dataset), pkl)
       IN  /\ pkl_loads' = pkl_loads \o r.loads
           /\ IF r.raised
              THEN Fail("encode_train", "KeyError") /\ UNCHANGED train_label
              ELSE Advance("encode_train") /\ train_label' = r.num_label
    /\ used' = used \cup {Use("encode_train")}
    /\ UNCHANGED <<env_vars, dataset, split, dev_label, trainer, evals, saved>>

\* A second encoding that reuses the mapping the first call loaded.
EncodeDevCached ==
    /\ pc = "encode_dev"
    /\ LET r == label_to_num(LabelValues(dataset, split.dev_dataset), pkl_loads[1])
       IN  IF r.raised
           THEN Fail("encode_dev", "KeyError") /\ UNCHANGED dev_label
           ELSE Advance("encode_dev") /\ dev_label' = r.num_label
    /\ used' = used \cup {Use("encode_dev")}
    /\ UNCHANGED <<env_vars, dataset, split, pkl_loads, train_label, trainer, evals, saved>>

\* dev_label = label_to_num(dev_dataset['label'].values)
EncodeDev ==
    /\ pc = "encode_dev"
    /\ LET r == label_to_num(LabelValues(dataset, split.dev_dataset), pkl)
       IN  /\ pkl_loads' = pkl_loads \o r.loads
           /\ IF r.raised
              THEN Fail("encode_dev", "KeyError") /\ UNCHANGED dev_label
              ELSE Advance("encode_dev") /\ dev_label' = r.num_label
    /\ used' = used \cup {Use("encode_dev")}
    /\ UNCHANGED <<env_vars, dataset, split, train_label, trainer, evals, saved>>

\* tokenize = getattr(import_module(args.load_data_filename), args.load_data_func_tokenized)
ResolveTokenize ==
    /\ pc = "resolve_tokenize"
    /\ LET r == Resolve(args.load_data_filename, args.load_data_func_tokenized)
       IN  IF r = "ok" THEN Advance("resolve_tokenize") ELSE Fail("resolve_tokenize", r)
    /\ UNCHANGED <<env_vars, dataset, split, pkl_loads, train_label, dev_label,
                   used, trainer, evals, saved>>

\* tokenized_train = tokenize(train_dataset, ...); tokenized_dev = tokenize(dev_dataset, ...)
\* args.tokenize is read for the call: AttributeError when args has none.
Tokenize ==
    /\ pc = "tokenize"
    /\ IF "tokenize" \in args.attrs
       THEN used' = used \cup {Use("tokenize")} /\ Advance("tokenize")
       ELSE UNCHANGED used /\ Fail("tokenize", "AttributeError")
    /\ UNCHANGED <<env_vars, dataset, split, pkl_loads, train_label, dev_label,
                   trainer, evals, saved>>

\* re_data = getattr(import_module(args.load_data_filename), args.load_data_class)
ResolveReData ==
    /\ pc = "resolve_re_data"
    /\ LET r == Resolve(args.load_data_filename, args.load_data_class)
       IN  IF r = "ok" THEN Advance("resolve_re_data") ELSE Fail("resolve_re_data", r)
    /\ UNCHANGED <<env_vars, dataset, split, pkl_loads, train_label, dev_label,
                   used, trainer, evals, saved>>

\* RE_train_dataset = re_data(tokenized_train, train_label); RE_dev_dataset = ...
ReData ==
    /\ pc = "re_data"
    /\ Advance("re_data")
    /\ UNCHANGED <<env_vars, dataset, split, pkl_loads, train_label, dev_label,
                   used, trainer, evals, saved>>

\* model = ReModel(args, tokenizer); model.to(device)
Model ==
    /\ pc = "model"
    /\ Advance("model")
    /\ UNCHANGED <<env_vars, dataset, split, pkl_loads, train_label, dev_label,
                   used, trainer, evals, saved>>

\* wandb.init(...); wandb.run.name = args.run_name
WandbInit ==
    /\ pc = "wandb_init"
    /\ Advance("wandb_init")
    /\ UNCHANGED <<env_vars, dataset, split, pkl_loads, train_label, dev_label,
                   used, trainer, evals, saved>>

(***************************************************************************)
(* The Trainer that train() configures and runs.  The weights of the model *)
(* are named by the optimisation step that produced them; checkpoint k     *)
(* holds the weights of step k and best_model_checkpoint = 0 means None.   *)
(***************************************************************************)
\* Outputs of the model on the dev set in one evaluation: every example
\* right, every example no_relation, every example the first relation.
EvalOutputs(labels) ==
    { [i \in 1..Len(labels) |-> ScoreVec(labels[i], 1)],
      [i \in 1..Len(labels) |-> ScoreVec(no_relation_label_idx, 1)],
      [i \in 1..Len(labels) |-> ScoreVec(1, 1)] }

\* The metrics with every key prefixed with "eval_".
PrefixEval(raw) ==
    [k \in {"eval_" \o key : key \in DOMAIN raw} |->
        raw[CHOOSE key \in DOMAIN raw : "eval_" \o key = k]]

\* Trainer.evaluate: compute_metrics on the dev predictions, every key of
\* the result prefixed with "eval_".
Evaluate(output, labels) ==
    PrefixEval(compute_metrics([label_ids |-> labels, predictions |-> output]))

\* name.startswith("eval_") on the metric names in use.
StartsWithEval(name) ==
    name \in {"eval_" \o key : key \in {"micro f1 score", "auprc", "accuracy", "f1", "loss"}}

\* Trainer._save_checkpoint at `step` with the metrics m of the same step
\* (NoMetrics when the step did not evaluate): the configured metric is
\* looked up under its "eval_" name (a missing key raises KeyError) and the
\* checkpoint becomes the best one when no best is recorded yet or the
\* value is greater than the recorded best.
SaveCheckpoint(tr, step, m, name) ==
    LET looked == m # NoMetrics
        metric_to_check == IF StartsWithEval(name) THEN name ELSE "eval_" \o name
        raised == looked /\ metric_to_check \notin DOMAIN m
        metric_value == IF looked /\ ~raised THEN m[metric_to_check] ELSE <<>>
        better == /\ looked /\ ~raised
                  /\ \/ tr.best_metric = <<>>
                     \/ tr.best_model_checkpoint = 0
                     \/ RLess(tr.best_metric, metric_value)
    IN  [raised |-> raised, metric_value |-> metric_value, new_best |-> better,
         trainer |-> [tr EXCEPT !.checkpoints = @ \cup {step},
                                !.best_metric = IF better THEN metric_value ELSE @,
                                !.best_model_checkpoint = IF better THEN step ELSE @]]

\* A trainer that keeps the last weights whatever the flag says.
LoadBestModelNever(tr, flag) == tr

\* load_best_model_at_end: at the end of training the weights of the best
\* checkpoint are loaded into the model, when the flag is set and a best
\* checkpoint is recorded.
LoadBestModel(tr, flag) ==
    IF flag /\ tr.best_model_checkpoint # 0
    THEN [tr EXCEPT !.weights = tr.best_model_checkpoint]
    ELSE tr

\* compute_metrics=compute_metrics: the function the trainer calls, once,
\* in an evaluation cycle.
TrainerComputeMetrics(output, labels) == Evaluate(output, labels)

\* training_args = TrainingArguments(...); trainer = Trainer(...)
\* args.warmup_ratio is read for the first call: AttributeError when args
\* has none.
ConfigureTrainer ==
    /\ pc = "trainer"
    /\ IF "warmup_ratio" \in args.attrs
       THEN /\ trainer' = [NoTrainer EXCEPT !.train_dataset = split.train_dataset,
                                            !.eval_dataset = split.dev_dataset]
            /\ used' = used \cup {Use("trainer")}
            /\ Advance("trainer")
       ELSE /\ UNCHANGED <<trainer, used>>
            /\ Fail("trainer", "AttributeError")
    /\ UNCHANGED <<env_vars, dataset, split, pkl_loads, train_label, dev_label,
                   evals, saved>>

\* Releases of the trainer that check the arguments refuse
\* load_best_model_at_end when save_steps is no multiple of eval_steps.
TrainingArgumentsRejected ==
    /\ pc = "trainer"
    /\ "warmup_ratio" \in args.attrs
    /\ args.load_best_model_at_end
    /\ args.save_steps % args.eval_steps # 0
    /\ Fail("trainer", "ValueError")
    /\ UNCHANGED <<env_vars, dataset, split, pkl_loads, train_label, dev_label,
                   used, trainer, evals, saved>>

\* The evaluation record of a cycle and the trainer after the checkpoint
\* that falls on the same step, given the metrics m of the step.
StepEffects(stepped, step, output, m, should_evaluate, should_save) ==
    LET sv == SaveCheckpoint(stepped, step, m, args.metric_for_best_model)
        preds == Array([i \in 1..Len(output) |-> ArgMax(output[i])])
        cycle == [step |-> step,
                  f1 |-> klue_re_micro_f1(preds, dev_label),
                  accuracy |-> accuracy_score(dev_label, preds),
                  saved |-> should_save,
                  raised |-> should_save /\ sv.raised,
                  checked |-> IF should_save THEN sv.metric_value ELSE <<>>,
                  new_best |-> should_save /\ sv.new_best]
    IN  /\ evals' = IF should_evaluate THEN Append(evals, cycle) ELSE evals
        /\ trainer' = IF should_save THEN sv.trainer ELSE stepped
        /\ IF should_save /\ sv.raised
           THEN Fail("train", "KeyError")
           ELSE UNCHANGED <<pc, history, error>>

\* trainer.train(): one optimisation step, then the evaluation and the
\* checkpoint that fall on it.
TrainStep ==
    /\ pc = "train"
    /\ trainer.global_step < MaxSteps
    /\ \E output \in (IF (trainer.global_step + 1) % args.eval_steps = 0
                       THEN EvalOutputs(dev_label) ELSE {<<>>}) :
          StepEffects([trainer EXCEPT !.global_step = @ + 1, !.weights = trainer.global_step + 1],
                      trainer.global_step + 1,
                      output,
                      IF (trainer.global_step + 1) % args.eval_steps = 0
                      THEN TrainerComputeMetrics(output, dev_label) ELSE NoMetrics,
                      (trainer.global_step + 1) % args.eval_steps = 0,
                      (trainer.global_step + 1) % args.save_steps = 0)
    /\ UNCHANGED <<env_vars, dataset, split, pkl_loads, train_label, dev_label,
                   used, saved>>

\* trainer.train() returns after the last step.
TrainEnd ==
    /\ pc = "train"
    /\ trainer.global_step = MaxSteps
    /\ trainer' = LoadBestModel(trainer, args.load_best_model_at_end)
    /\ Advance("train")
    /\ UNCHANGED <<env_vars, dataset, split, pkl_loads, train_label, dev_label,
                   used, evals, saved>>

\* wandb.finish()
WandbFinish ==
    /\ pc = "wandb_finish"
    /\ Advance("wandb_finish")
    /\ UNCHANGED <<env_vars, dataset, split, pkl_loads, train_label, dev_label,
                   used, trainer, evals, saved>>

\* model.save_pretrained(args.save_pretrained)
SavePretrained ==
    /\ pc = "save_pretrained"
    /\ saved' = Append(saved, [path |-> args.save_pretrained, weights |-> trainer.weights])
    /\ Advance("save_pretrained")
    /\ UNCHANGED <<env_vars, dataset, split, pkl_loads, train_label, dev_label,
                   used, trainer, evals>>

TrainNext ==
    \/ SeedEverything \/ FromPretrained \/ ResolveLoad \/ Load \/ SplitIter
    \/ EncodeTrain \/ EncodeDev \/ ResolveTokenize \/ Tokenize
    \/ ResolveReData \/ ReData \/ Model \/ WandbInit
    \/ ConfigureTrainer \/ TrainingArgumentsRejected
    \/ TrainStep \/ TrainEnd \/ WandbFinish \/ SavePretrained

SpecTrain == TrainInit /\ [][TrainNext]_vars

(***************************************************************************)
(* Claims about the metric engine (checked under SpecMetric).              *)
(***************************************************************************)
Computed == metrics # NoMetrics
Preds == [i \in DOMAIN predictions |-> ArgMax(predictions[i])]
Examples == DOMAIN label_ids

\* Pooled counts over the classes other than no_relation (class 0).
PooledTP == Cardinality({i \in Examples : Preds[i] = label_ids[i] /\ label_ids[i] # 0})
PooledFP == Cardinality({i \in Examples : Preds[i] # 0 /\ Preds[i] # label_ids[i]})
PooledFN == Cardinality({i \in Examples : label_ids[i] # 0 /\ Preds[i] # label_ids[i]})

\* C1: klue_re_micro_f1(preds, labels) = 100 * 2TP / (2TP + FP + FN) with
\* TP, FP, FN pooled over classes 1..29; it is 0 when no example has a true
\* or predicted label other than no_relation.
C1_MicroF1Formula ==
    Computed =>
        /\ (2 * PooledTP + PooledFP + PooledFN # 0 =>
               metrics["micro f1 score"] =
                   Rat(100 * 2 * PooledTP, 2 * PooledTP + PooledFP + PooledFN))
        /\ ((\A i \in Examples : label_ids[i] = 0 /\ Preds[i] = 0) =>
               metrics["micro f1 score"] = <<0, 1>>)

\* A batch with a true positive, a wrong relation (both a false positive and
\* a false negative) has been scored.
C1_Witness ==
    /\ Computed
    /\ PooledTP > 0 /\ PooledFP > 0 /\ PooledFN > 0
    /\ \E i \in Examples : Preds[i] # 0 /\ label_ids[i] # 0 /\ Preds[i] # label_ids[i]

\* C2: a perfect predictor scores exactly 100 whenever some example has a
\* true label other than no_relation.
C2_PerfectPredictor ==
    (/\ Computed
     /\ \A i \in Examples : Preds[i] = label_ids[i]
     /\ \E i \in Examples : label_ids[i] # 0)
    => metrics["micro f1 score"] = <<100, 1>>

\* A perfect predictor has been scored on a batch that holds a no_relation
\* example and an example of the last class.
C2_Witness ==
    /\ Computed
    /\ \A i \in Examples : Preds[i] = label_ids[i]
    /\ \E i \in Examples : label_ids[i] = 0
    /\ \E i \in Examples : label_ids[i] = NumLabels - 1

\* C3: 'accuracy' is the fraction of examples whose argmax equals the true
\* label, over all classes, no_relation included.
C3_AccuracyAllClasses ==
    Computed =>
        metrics["accuracy"] =
            Rat(Cardinality({i \in Examples : Preds[i] = label_ids[i]}),
                Cardinality(Examples))

\* A correctly predicted no_relation example counts for accuracy while the
\* F1 value, which leaves no_relation out, is 0.
C3_Witness ==
    /\ Computed
    /\ \E i \in Examples : label_ids[i] = 0 /\ Preds[i] = 0
    /\ \E i \in Examples : label_ids[i] # 0 /\ Preds[i] # label_ids[i]
    /\ metrics["accuracy"] = <<1, 2>>
    /\ metrics["micro f1 score"] = <<0, 1>>

\* C4: klue_re_auprc returns the same value for two score matrices whose
\* per-class order of the examples (ties included) is the same.
C4_AuprcRescaleInvariant ==
    (Computed /\ base # NoBase) => metrics["auprc"] = base.metrics["auprc"]

\* The rescaled batch has been scored; its scores and its argmax differ from
\* the original's, and the area is a number strictly between 0 and 100.
C4_Witness ==
    /\ Computed /\ base # NoBase
    /\ predictions # base.predictions
    /\ \E i \in Examples : Preds[i] # ArgMax(base.predictions[i])
    /\ ~IsNaN(metrics["auprc"])
    /\ RLess(<<0, 1>>, metrics["auprc"]) /\ RLess(metrics["auprc"], <<100, 1>>)
    /\ \E c \in 1..NumLabels :
          LET a == auprc_score(predictions, label_ids)[c]
          IN  RLess(<<0, 1>>, a) /\ RLess(a, <<1, 1>>)
              /\ \E i \in Examples : label_ids[i] = c - 1

(***************************************************************************)
(* Claims about train() (checked under SpecTrain).                         *)
(***************************************************************************)
\* The statement `step` of train() has completed.
Done(step) == \E k \in 1..Len(history) : history[k] = step
TrainPartLabels == LabelValues(dataset, split.train_dataset)
DevPartLabels == LabelValues(dataset, split.dev_dataset)

\* nums is labels looked up in the mapping, position by position.
EncodedBy(mapping, labels, nums) ==
    /\ Len(nums) = Len(labels)
    /\ \A i \in 1..Len(labels) :
          labels[i] \in DOMAIN mapping /\ nums[i] = mapping[labels[i]]
HasUnknown(labels) == \E i \in 1..Len(labels) : labels[i] \notin DOMAIN pkl
NothingAfterEncoding ==
    /\ ~Done("tokenize") /\ ~Done("train")
    /\ trainer = NoTrainer /\ evals = <<>> /\ saved = <<>>

\* C5: label_to_num returns a sequence of the same length with
\* result[i] = mapping[label[i]]; a label that is no key of the mapping makes
\* the call raise KeyError, nothing is bound to the label variable, and the
\* run ends before tokenization and training.
C5_LabelToNum ==
    /\ Done("encode_train") => EncodedBy(pkl, TrainPartLabels, train_label)
    /\ Done("encode_dev") => EncodedBy(pkl, DevPartLabels, dev_label)
    /\ (Done("split") /\ HasUnknown(TrainPartLabels)) =>
          /\ ~Done("encode_train") /\ train_label = <<>> /\ dev_label = <<>>
          /\ pc \in {"encode_train", "failed"}
          /\ pc = "failed" => error = [step |-> "encode_train", kind |-> "KeyError"]
          /\ NothingAfterEncoding
    /\ (Done("encode_train") /\ HasUnknown(DevPartLabels)) =>
          /\ ~Done("encode_dev") /\ dev_label = <<>>
          /\ pc \in {"encode_dev", "failed"}
          /\ pc = "failed" => error = [step |-> "encode_dev", kind |-> "KeyError"]
          /\ NothingAfterEncoding

\* The run has stopped with KeyError in the encoding of a train part that
\* holds a label the mapping does not know beside one it knows.
C5_Witness ==
    /\ pc = "failed"
    /\ error = [step |-> "encode_train", kind |-> "KeyError"]
    /\ HasUnknown(TrainPartLabels)
    /\ \E i \in 1..Len(TrainPartLabels) : TrainPartLabels[i] \in DOMAIN pkl
    /\ Len(pkl_loads) = 1

\* Names under which --metric_for_best_model selects the F1 value.
F1Names == {"eval_micro f1 score", "micro f1 score"}

ResolvedName ==
    [resolve_load |-> args.load_data_func_load,
     resolve_tokenize |-> args.load_data_func_tokenized,
     resolve_re_data |-> args.load_data_class]
ResolveSteps == DOMAIN ResolvedName
BadAt(step) ==
    args.load_data_filename \notin PluginModules \/ ResolvedName[step] \notin PluginAttrs
Position(step) == CHOOSE k \in 1..Len(StepOrder) : StepOrder[k] = step

C8_Original == Done("encode_dev") => Len(pkl_loads) = 1

\* C8 (amended): the mapping artifact is not loaded at the start of train()
\* but by every call of label_to_num: once for the train labels and once for
\* the dev labels, after the split; both loads give the same mapping, and it
\* is the one each label sequence is encoded with.
C8_MappingLoadedPerCall ==
    /\ ~Done("split") => pkl_loads = <<>>
    /\ Len(pkl_loads) <= 2
    /\ Done("encode_train") => Len(pkl_loads) >= 1
    /\ Done("encode_dev") =>
          /\ Len(pkl_loads) = 2
          /\ pkl_loads[1] = pkl_loads[2]
          /\ EncodedBy(pkl_loads[1], TrainPartLabels, train_label)
          /\ EncodedBy(pkl_loads[2], DevPartLabels, dev_label)

\* A run has finished with both label sequences encoded.
C8_Witness ==
    /\ pc = "done"
    /\ Len(pkl_loads) = 2
    /\ Len(train_label) = 2 /\ Len(dev_label) = 2

\* C9: for every n_splits >= 1 one pair of index sets reaches the label
\* encoding, the tokenization and the trainer: the pair bound in the last
\* iteration of the split loop, both sets of that iteration and disjoint.
C9_SingleSplit ==
    /\ Done("split") =>
          /\ split.i = args.n_splits
          /\ split.train_iter = args.n_splits /\ split.dev_iter = args.n_splits
          /\ split.train_dataset \cap split.dev_dataset = {}
          /\ split.train_dataset \cup split.dev_dataset = 1..Len(dataset)
          /\ [train_idx |-> split.train_dataset, test_idx |-> split.dev_dataset]
                \in StratifiedShuffleSplit(dataset, args.test_size)
    /\ ~Done("split") => used = {}
    /\ \A u \in used :
          /\ u.train = split.train_dataset /\ u.dev = split.dev_dataset
          /\ u.train_iter = u.dev_iter
    /\ Cardinality({<<u.train, u.dev>> : u \in used}) <= 1
    /\ trainer # NoTrainer =>
          /\ trainer.train_dataset = split.train_dataset
          /\ trainer.eval_dataset = split.dev_dataset

\* A run with more than one split iteration has finished; the encoding, the
\* tokenization and the trainer all read the pair of the last iteration.
C9_Witness ==
    /\ pc = "done"
    /\ args.n_splits > 1
    /\ split.train_iter = args.n_splits
    /\ {u.step : u \in used} = {"encode_train", "encode_dev", "tokenize", "trainer"}
    /\ trainer.eval_dataset = split.dev_dataset

\* The order of the steps as claimed.
ClaimedOrder ==
    << "seed_everything", "resolve_load", "load", "split", "encode_train",
       "encode_dev", "tokenize", "re_data", "model", "trainer", "train",
       "save_pretrained" >>
Claimed == {ClaimedOrder[k] : k \in 1..Len(ClaimedOrder)}
IsPrefix(s, t) == Len(s) <= Len(t) /\ SubSeq(t, 1, Len(s)) = s

\* The checkpoint selected as the best one during training: the one of the
\* last cycle that became the new best; 0 when no cycle did.
BestSelected ==
    IF \E k \in 1..Len(evals) : evals[k].new_best
    THEN evals[SetMax({k \in 1..Len(evals) : evals[k].new_best})].step
    ELSE 0

=============================================================================
